---- MODULE Spec2Model ----
(***************************************************************************)
(* PowerSpectrum (flashlight/lib/audio/feature/PowerSpectrum.{h,cpp}):     *)
(* construction, apply, powSpectrumImpl, batchApply and outputSize of one  *)
(* PowerSpectrum instance used by several threads.                         *)
(*                                                                         *)
(* Samples are integers.  The FFT backend (vDSP / IPP) is an external      *)
(* library: the magnitude of bin k of a transform is the uninterpreted     *)
(* term <<k, contents of inFftBuf_>>, so two magnitudes are equal in the   *)
(* model only if the backend was handed the same input buffer.             *)
(* FeatureParams, frameSignal, Dither, PreEmphasis and Windowing are not   *)
(* part of the sources at hand; they follow the specification document.    *)
(***************************************************************************)
EXTENDS Integers, Sequences, FiniteSets, TLC

\* ---------------------------------------------------------------- bounds
MaxThreads == 2     \* largest batchSz that is run: one thread per utterance
MaxLen == 10        \* longest input vector of a call
MaxCalls == 2       \* calls of apply / batchApply made on one instance

Threads == 1..MaxThreads
NoThread == 0

\* Field values a FeatureParams may be constructed with.
SamplingFreqs == {-1000, 0, 200, 1000}
FrameSizesMs == {-2, 0, 2, 3}
FrameStridesMs == {-1, 0, 2}
DitherVals == {0, 1}
PreemCoefs == {0, 1}
DitherSeeds == {0, 1}
BatchSizes == (0 - 1)..MaxThreads

VARIABLES
  params,        \* featParams_
  dynType,       \* dynamic type of the instance (apply/outputSize are virtual)
  ctorPc,        \* position of the constructor
  stagesBuilt,   \* dither_, preEmphasis_, windowing_ have been constructed
  validations,   \* number of validatePowSpecParams() runs
  inFftBuf,      \* inFftBuf_
  outFftBufLen,  \* outFftBuf_.size()
  fftMutex,      \* owner of fftMutex_, NoThread when free
  pc,            \* per thread: position inside apply / the worker body
  role,          \* per thread: "none", "apply" (direct call), "worker" (batchApply)
  inputBuf,      \* per thread: the input of its apply call
  frames,        \* per thread: frame matrix (local to the call)
  dft,           \* per thread: result vector under construction
  fIdx,          \* per thread: loop index f of the transform loop
  seed,          \* per thread: the noise dither_ drew for this call
  result,        \* per thread: value returned by apply
  ran,           \* per thread: stages executed by the current call (history)
  batch,         \* the batchApply call in progress
  feat,          \* batchApply's output buffer
  writers,       \* per output index: workers that wrote it (history)
  calls          \* number of calls issued on the instance

vars == <<params, dynType, ctorPc, stagesBuilt, validations,
          inFftBuf, outFftBufLen, fftMutex, pc, role, inputBuf, frames, dft,
          fIdx, seed, result, ran, batch, feat, writers, calls>>

\* ------------------------------------------------------------ FeatureParams
\* round(num / den), halves away from zero, den > 0
Round(num, den) ==
  IF num >= 0 THEN (2 * num + den) \div (2 * den)
  ELSE 0 - ((den - 2 * num) \div (2 * den))

numFrameSizeSamples(p) == Round(p.frameSizeMs * p.samplingFreq, 1000)

numFrameStrideSamples(p) == Round(p.frameStrideMs * p.samplingFreq, 1000)

RECURSIVE Pow2AtLeast(_, _)
Pow2AtLeast(n, acc) == IF acc >= n THEN acc ELSE Pow2AtLeast(n, 2 * acc)

\* transform length: the power of two >= the frame length
nFft(p) ==
  IF numFrameSizeSamples(p) > 0 THEN Pow2AtLeast(numFrameSizeSamples(p), 1) ELSE 0

filterFreqResponseLen(p) == (nFft(p) \div 2) + 1

powSpecFeatSz(p) == filterFreqResponseLen(p)

numFrames(p, inSize) ==
  IF numFrameStrideSamples(p) <= 0 \/ inSize < numFrameSizeSamples(p) THEN 0
  ELSE 1 + ((inSize - numFrameSizeSamples(p)) \div numFrameStrideSamples(p))

\* ------------------------------------------------------------- sequences
Zeros(n) == [i \in 1..n |-> 0]

\* a float of an output vector that no transform has written yet (0.0)
ZeroMag == <<>>

ZeroMags(n) == [i \in 1..n |-> ZeroMag]

RECURSIVE SumSeq(_)
SumSeq(s) == IF Len(s) = 0 THEN 0 ELSE Head(s) + SumSeq(Tail(s))

\* a waveform of n pairwise different samples
Waveform(n, base) == [i \in 1..n |-> base + i]

\* ------------------------------------------------------------ SpeechUtils
frameSignal(input, p) ==
  [j \in 1..(numFrames(p, Len(input)) * numFrameSizeSamples(p)) |->
     input[((j - 1) \div numFrameSizeSamples(p)) * numFrameStrideSamples(p)
           + ((j - 1) % numFrameSizeSamples(p)) + 1]]

\* ------------------------------------------------------------ the stages
Dither_apply(fr, p, sd) ==
  [j \in 1..Len(fr) |-> fr[j] + p.ditherVal * ((sd + j) % 2)]

\* x - mean, carried in units of 1/nSamples so that it stays an integer
ZeroMeanFrames(fr, nSamples) ==
  [j \in 1..Len(fr) |->
     nSamples * fr[j]
       - SumSeq(SubSeq(fr, ((j - 1) \div nSamples) * nSamples + 1,
                            ((j - 1) \div nSamples) * nSamples + nSamples))]

PreEmphasis_apply(fr, p) ==
  [j \in 1..Len(fr) |-> fr[j] - p.preemCoef * (IF j > 1 THEN fr[j - 1] ELSE 0)]

\* window coefficient of position i (0-based) of a frame
WindowCoef(i) == i + 1

Windowing_apply(fr, nSamples) ==
  [j \in 1..Len(fr) |-> fr[j] * WindowCoef((j - 1) % nSamples)]

\* lines 69-84 of powSpectrumImpl
Preprocess(fr, p, sd) ==
  LET d == IF p.ditherVal # 0 THEN Dither_apply(fr, p, sd) ELSE fr
      z == IF p.zeroMeanFrame THEN ZeroMeanFrames(d, numFrameSizeSamples(p)) ELSE d
      e == IF p.preemCoef # 0 THEN PreEmphasis_apply(z, p) ELSE z
  IN  Windowing_apply(e, numFrameSizeSamples(p))

StagesOf(p) ==
  (IF p.ditherVal # 0 THEN {"dither"} ELSE {})
    \cup (IF p.zeroMeanFrame THEN {"zeromean"} ELSE {})
    \cup (IF p.preemCoef # 0 THEN {"preemphasis"} ELSE {})
    \cup {"windowing"}

\* frame f (0-based) of a frame matrix
FrameOf(fr, f, nSamples) == SubSeq(fr, f * nSamples + 1, f * nSamples + nSamples)

\* inFftBuf_.assign(begin, begin + nSamples): the buffer shrinks to the frame
CopyFrameMut(buf, frame) == frame

\* std::copy(begin, begin + nSamples, inFftBuf_.data())
CopyFrame(buf, frame) ==
  [i \in 1..Len(buf) |-> IF i <= Len(frame) THEN frame[i] ELSE buf[i]]

\* the K magnitudes the backend computes from the input buffer
Magnitudes(buf, K) == [k \in 1..K |-> <<k - 1, buf>>]

\* dft[f * K .. f * K + K) := mags
StoreMags(d, f, K, mags) ==
  [i \in 1..Len(d) |-> IF i > f * K /\ i <= f * K + K THEN mags[i - f * K] ELSE d[i]]

\* ------------------------------------------------------------ construction
\* the derived sizes tested with < instead of <=
validatePowSpecParamsMut(p) ==
  IF p.samplingFreq <= 0 THEN "samplingFreq is negative"
  ELSE IF p.frameSizeMs <= 0 THEN "frameSizeMs is negative"
  ELSE IF p.frameStrideMs <= 0 THEN "frameStrideMs is negative"
  ELSE IF numFrameSizeSamples(p) < 0 THEN "frameSizeMs is too low"
  ELSE IF numFrameStrideSamples(p) < 0 THEN "frameStrideMs is too low"
  ELSE "ok"

\* lines 142-154: the message of the exception thrown, or "ok"
validatePowSpecParams(p) ==
  IF p.samplingFreq <= 0 THEN "samplingFreq is negative"
  ELSE IF p.frameSizeMs <= 0 THEN "frameSizeMs is negative"
  ELSE IF p.frameStrideMs <= 0 THEN "frameStrideMs is negative"
  ELSE IF numFrameSizeSamples(p) <= 0 THEN "frameSizeMs is too low"
  ELSE IF numFrameStrideSamples(p) <= 0 THEN "frameStrideMs is too low"
  ELSE "ok"

\* the transform length taken for the number of bins of a frame
outputSizeMut(p, inputSz) == nFft(p) * numFrames(p, inputSz)

\* lines 138-140
outputSize(p, inputSz) == powSpecFeatSz(p) * numFrames(p, inputSz)

\* The FeatureParams values an instance is constructed from.
ParamSpace ==
  [samplingFreq : SamplingFreqs, frameSizeMs : FrameSizesMs,
   frameStrideMs : FrameStridesMs, ditherVal : DitherVals,
   preemCoef : PreemCoefs, zeroMeanFrame : BOOLEAN]

NoBatch ==
  [state |-> "idle", input |-> <<>>, batchSz |-> 0, N |-> 0, outputSz |-> 0,
   error |-> "none"]

InitCommon ==
  /\ params \in ParamSpace
  /\ ctorPc = "start"
  /\ stagesBuilt = FALSE
  /\ validations = 0
  /\ inFftBuf = <<>>
  /\ outFftBufLen = 0
  /\ fftMutex = NoThread
  /\ pc = [t \in Threads |-> "idle"]
  /\ role = [t \in Threads |-> "none"]
  /\ inputBuf = [t \in Threads |-> <<>>]
  /\ frames = [t \in Threads |-> <<>>]
  /\ dft = [t \in Threads |-> <<>>]
  /\ fIdx = [t \in Threads |-> 0]
  /\ seed = [t \in Threads |-> 0]
  /\ result = [t \in Threads |-> <<>>]
  /\ ran = [t \in Threads |-> {}]
  /\ batch = NoBatch
  /\ feat = <<>>
  /\ writers = <<>>
  /\ calls = 0

Init == InitCommon /\ dynType = "PowerSpectrum"

callVars == <<pc, role, inputBuf, frames, dft, fIdx, seed, result, ran, batch,
              feat, writers, calls, fftMutex>>

\* member initializers, lines 21-24
CtorInitMembers ==
  /\ ctorPc = "start"
  /\ ctorPc' = "members"
  /\ stagesBuilt' = TRUE
  /\ UNCHANGED <<params, dynType, validations, inFftBuf, outFftBufLen>>
  /\ UNCHANGED callVars

\* line 25
CtorValidate ==
  /\ ctorPc = "members"
  /\ validations' = validations + 1
  /\ ctorPc' = IF validatePowSpecParams(params) = "ok" THEN "validated"
               ELSE "invalid_argument"
  /\ UNCHANGED <<params, dynType, stagesBuilt, inFftBuf, outFftBufLen>>
  /\ UNCHANGED callVars

\* lines 26-28
CtorAllocBuffers ==
  /\ ctorPc = "validated"
  /\ inFftBuf' = Zeros(nFft(params))
  /\ outFftBufLen' = 2 * nFft(params)
  /\ ctorPc' = "built"
  /\ UNCHANGED <<params, dynType, stagesBuilt, validations>>
  /\ UNCHANGED callVars

ctorVars == <<params, dynType, ctorPc, stagesBuilt, validations,
              outFftBufLen>>

\* ------------------------------------------------------------------ calls
nSamplesOf == numFrameSizeSamples(params)

nFramesOf(t) == Len(frames[t]) \div nSamplesOf

\* the process is alive and no exception has left batchApply's parallel loop
Alive == batch.state \notin {"terminated", "failed"}

\* the test of line 57 left out: every signal goes on to powSpectrumImpl
FramesEmptyMut(fr) == FALSE

\* frames.empty(), line 57
FramesEmpty(fr) == Len(fr) = 0

\* no lock_guard: the loop is entered whoever owns the mutex
CanLockMut(t) == TRUE

\* std::lock_guard<std::mutex> lock(fftMutex_) can take the mutex, line 86
CanLock(t) == fftMutex = NoThread

\* a guard declared inside the loop body: the mutex is free after each frame
LockAfterFrameMut(owner) == NoThread

\* owner of fftMutex_ after one iteration of the loop of lines 87-103: the guard
\* of line 86 lives until the return of line 104
LockAfterFrame(owner) == owner

\* the divisibility test left out
batchArgErrorMut(len, batchSz) ==
  IF batchSz <= 0 THEN "negative batchSz" ELSE "ok"

\* lines 110-115: the exception batchApply throws for its arguments, or "ok"
batchArgError(len, batchSz) ==
  IF batchSz <= 0 THEN "negative batchSz"
  ELSE IF len % batchSz # 0 THEN "input size is not divisible by batchSz"
  ELSE "ok"

\* feat.begin() + b
SlabOffsetMut(b, curSz) == b

\* feat.begin() + b * curFeat.size(), line 129 (0-based offset)
SlabOffset(b, curSz) == b * curSz

\* input.begin() + b * N .. + N, lines 122-123
SliceOf(input, b, N) == SubSeq(input, b * N + 1, b * N + N)

\* what the virtual apply hands back for the vector powSpectrumImpl computed;
\* an overriding apply may return a vector of another size
VirtualApply(res) == IF dynType = "PowerSpectrum" THEN res ELSE Append(res, ZeroMag)

\* apply run alone on a freshly constructed instance, lines 55-105
ApplyFn(input, p, sd) ==
  LET fr0 == frameSignal(input, p)
      fr == Preprocess(fr0, p, sd)
      nS == numFrameSizeSamples(p)
      K == filterFreqResponseLen(p)
  IN  IF Len(fr0) = 0 THEN <<>>
      ELSE [i \in 1..(K * (Len(fr) \div nS)) |->
              Magnitudes(CopyFrame(Zeros(nFft(p)), FrameOf(fr, (i - 1) \div K, nS)),
                         K)[((i - 1) % K) + 1]]

IdleThread(t) ==
  /\ pc' = [pc EXCEPT ![t] = "idle"]
  /\ role' = [role EXCEPT ![t] = "none"]
  /\ inputBuf' = [inputBuf EXCEPT ![t] = <<>>]
  /\ frames' = [frames EXCEPT ![t] = <<>>]
  /\ dft' = [dft EXCEPT ![t] = <<>>]
  /\ fIdx' = [fIdx EXCEPT ![t] = 0]
  /\ seed' = [seed EXCEPT ![t] = 0]
  /\ result' = [result EXCEPT ![t] = <<>>]
  /\ ran' = [ran EXCEPT ![t] = {}]

\* The caller calls apply(input) on the instance.  The calls of one caller follow
\* each other; the concurrent apply calls on the instance are those of the
\* workers of batchApply, each of which calls apply on its slice.
CallApply(t, n) ==
  /\ ctorPc = "built" /\ Alive
  /\ calls < MaxCalls
  /\ pc[t] = "idle" /\ role[t] = "none"
  /\ \A u \in Threads : role[u] = "none"
  /\ batch.state = "idle"
  /\ calls' = calls + 1
  /\ role' = [role EXCEPT ![t] = "apply"]
  /\ inputBuf' = [inputBuf EXCEPT ![t] = Waveform(n, 100 * calls)]
  /\ pc' = [pc EXCEPT ![t] = "apply"]
  /\ UNCHANGED <<frames, dft, fIdx, seed, result, ran, batch, feat, writers,
                 fftMutex, inFftBuf>>
  /\ UNCHANGED ctorVars

\* apply, lines 56-59, and for a signal with frames powSpectrumImpl, lines 64-85:
\* everything the call does on its own data before it asks for the mutex
ApplyBegin(t) ==
  /\ Alive /\ pc[t] = "apply"
  /\ LET fr == frameSignal(inputBuf[t], params)
     IN  IF FramesEmpty(fr)
         THEN /\ frames' = [frames EXCEPT ![t] = fr]
              /\ pc' = [pc EXCEPT ![t] = "applied"]
              /\ result' = [result EXCEPT ![t] = <<>>]
              /\ UNCHANGED <<seed, ran, dft>>
         ELSE /\ \E sd \in (IF params.ditherVal # 0 THEN DitherSeeds ELSE {0}) :
                   /\ seed' = [seed EXCEPT ![t] = sd]
                   /\ frames' = [frames EXCEPT ![t] = Preprocess(fr, params, sd)]
              /\ ran' = [ran EXCEPT ![t] = @ \cup StagesOf(params)]
              /\ dft' = [dft EXCEPT ![t] =
                           ZeroMags(filterFreqResponseLen(params)
                                      * (Len(fr) \div nSamplesOf))]
              /\ pc' = [pc EXCEPT ![t] = "lock"]
              /\ UNCHANGED result
  /\ UNCHANGED <<role, inputBuf, fIdx, batch, feat, writers, calls, fftMutex,
                 inFftBuf>>
  /\ UNCHANGED ctorVars

\* powSpectrumImpl, line 86 and the loop header of line 87; with no frame to
\* transform the function returns at once (line 104) and the guard unlocks
AcquireLock(t) ==
  /\ Alive /\ pc[t] = "lock"
  /\ CanLock(t)
  /\ ran' = [ran EXCEPT ![t] = @ \cup {"lock"}]
  /\ fIdx' = [fIdx EXCEPT ![t] = 0]
  /\ IF 0 < nFramesOf(t)
     THEN /\ fftMutex' = t
          /\ pc' = [pc EXCEPT ![t] = "copy"]
          /\ UNCHANGED result
     ELSE /\ fftMutex' = fftMutex
          /\ pc' = [pc EXCEPT ![t] = "applied"]
          /\ result' = [result EXCEPT ![t] = VirtualApply(dft[t])]
  /\ UNCHANGED <<role, inputBuf, frames, dft, seed, batch, feat, writers, calls,
                 inFftBuf>>
  /\ UNCHANGED ctorVars

\* powSpectrumImpl, lines 88-89
CopyToFftBuf(t) ==
  /\ Alive /\ pc[t] = "copy"
  /\ inFftBuf' = CopyFrame(inFftBuf, FrameOf(frames[t], fIdx[t], nSamplesOf))
  /\ pc' = [pc EXCEPT ![t] = "fft"]
  /\ UNCHANGED <<role, inputBuf, frames, dft, fIdx, seed, result, ran, batch, feat,
                 writers, calls, fftMutex>>
  /\ UNCHANGED ctorVars

\* powSpectrumImpl, lines 90-103: transform of the buffer, magnitudes into dft;
\* after the last frame line 104 returns dft and the guard unlocks
TransformFrame(t) ==
  /\ Alive /\ pc[t] = "fft"
  /\ LET d == StoreMags(dft[t], fIdx[t], filterFreqResponseLen(params),
                        Magnitudes(inFftBuf, filterFreqResponseLen(params)))
     IN  /\ dft' = [dft EXCEPT ![t] = d]
         /\ IF fIdx[t] + 1 < nFramesOf(t)
            THEN /\ pc' = [pc EXCEPT ![t] = "copy"]
                 /\ fftMutex' = LockAfterFrame(fftMutex)
                 /\ UNCHANGED result
            ELSE /\ pc' = [pc EXCEPT ![t] = "applied"]
                 /\ fftMutex' = NoThread
                 /\ result' = [result EXCEPT ![t] = VirtualApply(d)]
  /\ ran' = [ran EXCEPT ![t] = @ \cup {"transform"}]
  /\ fIdx' = [fIdx EXCEPT ![t] = @ + 1]
  /\ UNCHANGED <<role, inputBuf, frames, seed, batch, feat, writers, calls,
                 inFftBuf>>
  /\ UNCHANGED ctorVars

\* the caller of a direct apply takes the result
ApplyReturn(t) ==
  /\ Alive /\ pc[t] = "applied" /\ role[t] = "apply"
  /\ IdleThread(t)
  /\ UNCHANGED <<batch, feat, writers, calls, fftMutex, inFftBuf>>
  /\ UNCHANGED ctorVars

\* batchApply, lines 110-120, up to the start of the parallel loop; worker b runs
\* on thread b + 1 with its slice (lines 122-123)
CallBatchApply(n, batchSz) ==
  /\ ctorPc = "built" /\ Alive
  /\ calls < MaxCalls
  /\ batch.state = "idle"
  /\ \A u \in Threads : role[u] = "none"
  /\ calls' = calls + 1
  /\ LET input == Waveform(n, 100 * calls)
         err == batchArgError(n, batchSz)
     IN  IF err # "ok"
         THEN /\ batch' = [state |-> "invalid_argument", input |-> input,
                           batchSz |-> batchSz, N |-> 0, outputSz |-> 0,
                           error |-> err]
              /\ UNCHANGED <<pc, role, inputBuf, feat, writers>>
         ELSE /\ \A t \in 1..batchSz : pc[t] = "idle" /\ role[t] = "none"
              /\ batch' = [state |-> "running", input |-> input,
                           batchSz |-> batchSz, N |-> n \div batchSz,
                           outputSz |-> outputSize(params, n \div batchSz),
                           error |-> "none"]
              /\ feat' = ZeroMags(outputSize(params, n \div batchSz) * batchSz)
              /\ writers' = [i \in 1..(outputSize(params, n \div batchSz) * batchSz)
                               |-> {}]
              /\ role' = [t \in Threads |-> IF t <= batchSz THEN "worker" ELSE role[t]]
              /\ pc' = [t \in Threads |-> IF t <= batchSz THEN "apply" ELSE pc[t]]
              /\ inputBuf' = [t \in Threads |->
                                IF t <= batchSz
                                THEN SliceOf(input, t - 1, n \div batchSz)
                                ELSE inputBuf[t]]
  /\ UNCHANGED <<frames, dft, fIdx, seed, result, ran, fftMutex, inFftBuf>>
  /\ UNCHANGED ctorVars

\* batchApply, lines 125-129, worker b = t - 1.  An exception that leaves the
\* body of the parallel loop either ends the process or reaches the caller.
WorkerStore(t) ==
  /\ Alive /\ pc[t] = "applied" /\ role[t] = "worker"
  /\ IF batch.outputSz # Len(result[t])
     THEN /\ \E outcome \in {"terminated", "failed"} :
               batch' = [batch EXCEPT !.state = outcome,
                                      !.error = "apply() returned wrong size"]
          /\ pc' = [pc EXCEPT ![t] = "thrown"]
          /\ UNCHANGED <<feat, writers>>
     ELSE /\ feat' = [i \in 1..Len(feat) |->
                        IF /\ i > SlabOffset(t - 1, Len(result[t]))
                           /\ i <= SlabOffset(t - 1, Len(result[t])) + Len(result[t])
                        THEN result[t][i - SlabOffset(t - 1, Len(result[t]))]
                        ELSE feat[i]]
          /\ writers' = [i \in 1..Len(writers) |->
                           IF /\ i > SlabOffset(t - 1, Len(result[t]))
                              /\ i <= SlabOffset(t - 1, Len(result[t])) + Len(result[t])
                           THEN writers[i] \cup {t - 1}
                           ELSE writers[i]]
          /\ pc' = [pc EXCEPT ![t] = "stored"]
          /\ UNCHANGED batch
  /\ UNCHANGED <<role, inputBuf, frames, dft, fIdx, seed, result, ran, calls,
                 fftMutex, inFftBuf>>
  /\ UNCHANGED ctorVars

\* the end of the parallel loop and line 131
BatchJoin ==
  /\ batch.state = "running"
  /\ \A t \in 1..batch.batchSz : pc[t] = "stored"
  /\ batch' = [batch EXCEPT !.state = "returned"]
  /\ UNCHANGED <<pc, role, inputBuf, frames, dft, fIdx, seed, result, ran, feat,
                 writers, calls, fftMutex, inFftBuf>>
  /\ UNCHANGED ctorVars

\* the caller of batchApply takes the result or the exception
BatchFinish ==
  /\ batch.state \in {"returned", "invalid_argument"}
  /\ pc' = [t \in Threads |-> IF role[t] = "worker" THEN "idle" ELSE pc[t]]
  /\ role' = [t \in Threads |-> IF role[t] = "worker" THEN "none" ELSE role[t]]
  /\ inputBuf' = [t \in Threads |-> IF role[t] = "worker" THEN <<>> ELSE inputBuf[t]]
  /\ frames' = [t \in Threads |-> IF role[t] = "worker" THEN <<>> ELSE frames[t]]
  /\ dft' = [t \in Threads |-> IF role[t] = "worker" THEN <<>> ELSE dft[t]]
  /\ fIdx' = [t \in Threads |-> IF role[t] = "worker" THEN 0 ELSE fIdx[t]]
  /\ seed' = [t \in Threads |-> IF role[t] = "worker" THEN 0 ELSE seed[t]]
  /\ result' = [t \in Threads |-> IF role[t] = "worker" THEN <<>> ELSE result[t]]
  /\ ran' = [t \in Threads |-> IF role[t] = "worker" THEN {} ELSE ran[t]]
  /\ batch' = NoBatch
  /\ feat' = <<>>
  /\ writers' = <<>>
  /\ UNCHANGED <<calls, fftMutex, inFftBuf>>
  /\ UNCHANGED ctorVars

Next ==
  \/ CtorInitMembers
  \/ CtorValidate
  \/ CtorAllocBuffers
  \/ \E n \in 0..MaxLen : CallApply(1, n)
  \/ \E t \in Threads : ApplyBegin(t)
  \/ \E t \in Threads : AcquireLock(t)
  \/ \E t \in Threads : CopyToFftBuf(t)
  \/ \E t \in Threads : TransformFrame(t)
  \/ \E t \in Threads : ApplyReturn(t)
  \/ \E n \in 0..MaxLen : \E batchSz \in BatchSizes : CallBatchApply(n, batchSz)
  \/ \E t \in Threads : WorkerStore(t)
  \/ BatchJoin
  \/ BatchFinish

Spec == Init /\ [][Next]_vars

\* the same instance, or one of a subclass whose apply returns another size
InitVirtual == InitCommon /\ dynType \in {"PowerSpectrum", "Subclass"}

SpecVirtual == InitVirtual /\ [][Next]_vars

\* ------------------------------------------------------------------ claims
Max(a, b) == IF a >= b THEN a ELSE b

StageNames == {"dither", "zeromean", "preemphasis", "windowing"}

Busy(t) == pc[t] \in {"copy", "fft"}

\* C1: when batchApply returns, its vector has batchSz * outputSize(N) elements,
\* the slab [b * outputSize(N), (b + 1) * outputSize(N)) holds what apply yields
\* for slice b of the input (with the noise worker b drew), and every output
\* index was written by worker (index div outputSize(N)) and by no other worker,
\* whatever the interleaving of the workers.
C1_BatchEqualsConcat ==
  /\ batch.state \in {"running", "returned"} =>
       \A i \in 1..Len(writers) : writers[i] \subseteq {(i - 1) \div batch.outputSz}
  /\ batch.state = "returned" =>
       /\ Len(feat) = batch.batchSz * outputSize(params, batch.N)
       /\ \A i \in 1..Len(feat) : writers[i] = {(i - 1) \div batch.outputSz}
       /\ \A b \in 0..(batch.batchSz - 1) :
            SubSeq(feat, b * outputSize(params, batch.N) + 1,
                   (b + 1) * outputSize(params, batch.N))
              = ApplyFn(SliceOf(batch.input, b, batch.N), params, seed[b + 1])

\* two workers, each with at least two frames, have filled the output
C1_Witness ==
  /\ batch.state = "returned"
  /\ batch.batchSz >= 2
  /\ \A t \in 1..2 : fIdx[t] >= 2
  /\ Len(feat) = 2 * Len(result[1])

\* C2: at most one thread is inside a per-frame transform step, and a thread
\* that copies into inFftBuf_ or transforms it holds fftMutex_.
C2_TransformSerialized ==
  /\ Cardinality({t \in Threads : Busy(t)}) <= 1
  /\ \A t \in Threads : Busy(t) => fftMutex = t

\* one worker transforms a frame while another one waits for the mutex
C2_Witness ==
  \E t, u \in Threads : pc[t] = "fft" /\ fftMutex = t /\ pc[u] = "lock"

\* C3: a batchApply call ends with invalid_argument exactly when batchSz <= 0 or
\* the input length is not a multiple of batchSz (batchSz <= 0 is tested first);
\* then no worker runs, apply is not called and no output buffer exists.
C3_BatchArgsRejected ==
  batch.state # "idle" =>
    LET bad == batch.batchSz <= 0 \/ Len(batch.input) % batch.batchSz # 0
    IN  /\ bad <=> batch.state = "invalid_argument"
        /\ bad =>
             /\ batch.error = (IF batch.batchSz <= 0 THEN "negative batchSz"
                               ELSE "input size is not divisible by batchSz")
             /\ \A t \in Threads : role[t] = "none" /\ pc[t] = "idle"
             /\ feat = <<>> /\ writers = <<>>

\* a call with a positive batchSz that does not divide a non-empty input
C3_Witness ==
  /\ batch.state = "invalid_argument"
  /\ batch.batchSz > 1
  /\ Len(batch.input) > batch.batchSz

\* C4: when a worker of batchApply throws, the batchApply call fails with that
\* error at its caller.
C4_WorkerErrorReachesCaller ==
  (\E t \in Threads : pc[t] = "thrown") =>
    batch.state = "failed" /\ batch.error = "apply() returned wrong size"

\* C5: outputSize(N) = K * max(0, floor((N - samplesPerFrame) / samplesPerStride) + 1)
\* for every N, apply's result on an input of length N has outputSize(N) elements,
\* and 16000 Hz, 25 ms, 10 ms, N = 16000 gives 98 frames and 25186 values.
ExampleParams ==
  [samplingFreq |-> 16000, frameSizeMs |-> 25, frameStrideMs |-> 10,
   ditherVal |-> 0, preemCoef |-> 0, zeroMeanFrame |-> FALSE]

C5_OutputSize ==
  /\ ctorPc = "built" =>
       \A N \in 0..MaxLen :
          outputSize(params, N)
            = filterFreqResponseLen(params)
                * Max(0, ((N - numFrameSizeSamples(params))
                            \div numFrameStrideSamples(params)) + 1)
  /\ \A t \in Threads :
       pc[t] = "applied" => Len(result[t]) = outputSize(params, Len(inputBuf[t]))
  /\ numFrames(ExampleParams, 16000) = 98
  /\ outputSize(ExampleParams, 16000) = 257 * 98
  /\ outputSize(ExampleParams, 16000) = 25186

\* apply has returned several frames for an input with a partial frame at its end
C5_Witness ==
  \E t \in Threads :
    /\ pc[t] = "applied"
    /\ Len(result[t]) >= 2 * filterFreqResponseLen(params)
    /\ nFft(params) > numFrameSizeSamples(params)
    /\ (Len(inputBuf[t]) - numFrameSizeSamples(params))
         % numFrameStrideSamples(params) # 0

\* C6: construction passes validation exactly when samplingFreq, frameSizeMs,
\* frameStrideMs, samplesPerFrame and samplesPerStride are all positive, and no
\* call runs on an instance with samplesPerFrame < 1 or samplesPerStride < 1.
C6_InvalidParamsRejected ==
  LET bad == \/ params.samplingFreq <= 0
             \/ params.frameSizeMs <= 0
             \/ params.frameStrideMs <= 0
             \/ numFrameSizeSamples(params) <= 0
             \/ numFrameStrideSamples(params) <= 0
  IN  /\ ctorPc \in {"validated", "built"} => ~bad
      /\ ctorPc = "invalid_argument" => bad
      /\ (calls > 0 \/ \E t \in Threads : role[t] # "none") =>
           numFrameSizeSamples(params) >= 1 /\ numFrameStrideSamples(params) >= 1

\* construction failed although the three fields are positive: a derived size is 0
C6_Witness ==
  /\ ctorPc = "invalid_argument"
  /\ params.samplingFreq > 0 /\ params.frameSizeMs > 0 /\ params.frameStrideMs > 0
  /\ numFrameSizeSamples(params) > 0

\* C7: a call of apply whose input is shorter than samplesPerFrame returns the
\* empty vector, runs no stage, does not take fftMutex_ and leaves inFftBuf_ as it
\* was; a batchApply whose utterances are that short returns an empty vector
\* without an error.
C7_ShortInputEmpty ==
  [][/\ \A t \in Threads :
          (role'[t] # "none" /\ Len(inputBuf'[t]) < nSamplesOf) =>
             /\ pc'[t] \in {"apply", "applied", "stored"}
             /\ ran'[t] = {}
             /\ result'[t] = <<>>
             /\ fftMutex' # t
     /\ \A t \in Threads :
          (role[t] # "none" /\ Len(inputBuf[t]) < nSamplesOf /\ pc'[t] # pc[t]) =>
             inFftBuf' = inFftBuf /\ fftMutex' = fftMutex
     /\ (batch.state = "running" /\ batch.N < nSamplesOf) =>
             /\ batch'.state \in {"running", "returned"}
             /\ batch'.error = "none"
             /\ feat' = <<>>
    ]_vars

\* apply has returned for a short, non-empty input on an instance whose transform
\* buffer holds the frame of an earlier call
C7_Witness ==
  \E t \in Threads :
    /\ pc[t] = "applied"
    /\ Len(inputBuf[t]) > 0 /\ Len(inputBuf[t]) < nSamplesOf
    /\ inFftBuf # Zeros(nFft(params))

\* C8 as stated: the mutex is released after every single frame's transform, so
\* between two frames of one apply the thread does not hold it.
C8_LockPerFrame ==
  \A t \in Threads : (pc[t] = "copy" /\ fIdx[t] > 0) => fftMutex # t

\* C8, amended: the mutex is taken once per apply, after windowing, and is given
\* up only by the step that transforms the last frame; from the first frame to
\* the last its owner does not change, and no stage other than the transform
\* runs in a thread that holds it.
C8_LockPerApply ==
  [][\A t \in Threads :
       /\ (fftMutex = t /\ fftMutex' # t) =>
            /\ pc[t] = "fft" /\ fIdx[t] + 1 = nFramesOf(t)
            /\ pc'[t] = "applied" /\ fftMutex' = NoThread
       /\ (pc'[t] = "copy" /\ fIdx'[t] > 0) => (fftMutex = t /\ fftMutex' = t)
       /\ (ran'[t] \cap StageNames) # (ran[t] \cap StageNames) =>
            (fftMutex # t /\ fftMutex' # t)
    ]_vars

\* between two frames of one worker, which holds the mutex, another worker waits
C8_Witness ==
  \E t, u \in Threads :
    /\ pc[t] = "copy" /\ fIdx[t] > 0 /\ fftMutex = t
    /\ pc[u] = "lock"

\* C9: when validation fails, dither_, preEmphasis_ and windowing_ have not been
\* constructed yet.
C9_ValidationBeforeStages ==
  ctorPc = "invalid_argument" => ~stagesBuilt

\* C10: when frame f is transformed, inFftBuf_ has the transform length, its first
\* samplesPerFrame entries are the preprocessed samples of frame f of the call's
\* input, and all further entries are 0; the buffer keeps its length and its
\* zero padding in every state after construction.
C10_FftInputIsFrame ==
  /\ ctorPc = "built" =>
       /\ Len(inFftBuf) = nFft(params)
       /\ \A i \in (nSamplesOf + 1)..nFft(params) : inFftBuf[i] = 0
  /\ \A t \in Threads :
       pc[t] = "fft" =>
         SubSeq(inFftBuf, 1, nSamplesOf)
           = FrameOf(Preprocess(frameSignal(inputBuf[t], params), params, seed[t]),
                     fIdx[t], nSamplesOf)

\* a later frame of the second call is about to be transformed, with padding
C10_Witness ==
  \E t \in Threads :
    /\ pc[t] = "fft" /\ fIdx[t] >= 1
    /\ calls = 2
    /\ nFft(params) > nSamplesOf

====
